---- MODULE Spec2Model ----
(***************************************************************************)
(* Model of the built-in expression functions of expr_funcs.go: contains,  *)
(* startswith, endswith, join, fromjson and the function registry.         *)
(*                                                                         *)
(* A Go string is the sequence of its bytes (0..255); Str writes one from  *)
(* its printable ASCII characters.  A raw Go value (interface{}) is a      *)
(* record [kind, val] whose kind is its dynamic type: "nil", "bool",       *)
(* "float64", "string", "slice" ([]interface{}) or "map"                   *)
(* (map[string]interface{}).  A float64 is [neg, mant, exp] =               *)
(* (-1)^neg * mant * 2^exp with mant in 2^52 .. 2^53 - 1, or below 2^52    *)
(* with exp = -1074 (denormal); a zero has no mant digits and exp 0.       *)
(* An EvaluationResult is [Type, Value]: the raw value with its actionlint *)
(* type tag.                                                               *)
(***************************************************************************)
EXTENDS Integers, Sequences, FiniteSets, TLC

VARIABLES fn, args, pc, result

vars == <<fn, args, pc, result>>

(***************************************************************************)
(* Bounds of the explored inputs.                                          *)
(***************************************************************************)
MaxLen == 2        \* longest string over Alphabet
MaxArr == 2        \* longest array
MaxNum == 2        \* largest number value
MaxJsonLen == 3    \* longest JSON text over JsonAlphabet
MaxArgs == 3       \* most arguments in a call

(***************************************************************************)
(* Raw values and EvaluationResult.                                        *)
(***************************************************************************)
Nil == [kind |-> "nil", val |-> 0]
RawBool(b) == [kind |-> "bool", val |-> b]
RawNum(d) == [kind |-> "float64", val |-> d]
RawStr(s) == [kind |-> "string", val |-> s]
RawSlice(s) == [kind |-> "slice", val |-> s]
RawMap(m) == [kind |-> "map", val |-> m]

EvaluationResult(v, t) == [Type |-> t, Value |-> v]

(***************************************************************************)
(* Strings as bytes.                                                       *)
(***************************************************************************)
\* the characters of the bytes 32..126; a TLA+ string cannot hold the
\* backquote (byte 96), which is written "<backquote>" here
Ascii ==
    <<" ", "!", "\"", "#", "$", "%", "&", "'", "(", ")", "*", "+", ",", "-",
      ".", "/", "0", "1", "2", "3", "4", "5", "6", "7", "8", "9", ":", ";",
      "<", "=", ">", "?", "@", "A", "B", "C", "D", "E", "F", "G", "H", "I",
      "J", "K", "L", "M", "N", "O", "P", "Q", "R", "S", "T", "U", "V", "W",
      "X", "Y", "Z", "[", "\\", "]", "^", "_", "<backquote>", "a", "b", "c",
      "d", "e", "f", "g", "h", "i", "j", "k", "l", "m", "n", "o", "p", "q",
      "r", "s", "t", "u", "v", "w", "x", "y", "z", "{", "|", "}", "~">>

Byte(c) == 31 + CHOOSE i \in 1..95 : Ascii[i] = c

Str(cs) == [i \in 1..Len(cs) |-> Byte(cs[i])]

(***************************************************************************)
(* Go unicode/utf8 and unicode packages.                                   *)
(***************************************************************************)
RuneError == 65533

InvalidRune == [rune |-> RuneError, size |-> 1]

IsContinuation(b) == b >= 128 /\ b <= 191

\* utf8.DecodeRuneInString(s[i-1:]): the rune at index i and its width
DecodeRune(s, i) ==
    LET n == Len(s) - i + 1
        b0 == s[i]
    IN IF b0 < 128 THEN [rune |-> b0, size |-> 1]
       ELSE IF b0 >= 194 /\ b0 <= 223
       THEN IF n >= 2 /\ IsContinuation(s[i + 1])
            THEN [rune |-> (b0 - 192) * 64 + (s[i + 1] - 128), size |-> 2]
            ELSE InvalidRune
       ELSE IF b0 >= 224 /\ b0 <= 239
       THEN LET lo == IF b0 = 224 THEN 160 ELSE 128
                hi == IF b0 = 237 THEN 159 ELSE 191
            IN IF n >= 3 /\ s[i + 1] >= lo /\ s[i + 1] <= hi /\ IsContinuation(s[i + 2])
               THEN [rune |-> (b0 - 224) * 4096 + (s[i + 1] - 128) * 64 + (s[i + 2] - 128),
                     size |-> 3]
               ELSE InvalidRune
       ELSE IF b0 >= 240 /\ b0 <= 244
       THEN LET lo == IF b0 = 240 THEN 144 ELSE 128
                hi == IF b0 = 244 THEN 143 ELSE 191
            IN IF n >= 4 /\ s[i + 1] >= lo /\ s[i + 1] <= hi
                  /\ IsContinuation(s[i + 2]) /\ IsContinuation(s[i + 3])
               THEN [rune |-> (b0 - 240) * 262144 + (s[i + 1] - 128) * 4096
                                + (s[i + 2] - 128) * 64 + (s[i + 3] - 128),
                     size |-> 4]
               ELSE InvalidRune
       ELSE InvalidRune

\* utf8.AppendRune: the UTF-8 encoding of r, of RuneError when r is no scalar value
EncodeRune(r) ==
    IF r < 0 \/ r > 1114111 \/ (r >= 55296 /\ r <= 57343) THEN <<239, 191, 189>>
    ELSE IF r < 128 THEN <<r>>
    ELSE IF r < 2048 THEN <<192 + (r \div 64), 128 + (r % 64)>>
    ELSE IF r < 65536
    THEN <<224 + (r \div 4096), 128 + ((r \div 64) % 64), 128 + (r % 64)>>
    ELSE <<240 + (r \div 262144), 128 + ((r \div 4096) % 64),
           128 + ((r \div 64) % 64), 128 + (r % 64)>>

\* the lower case mappings of the non-ASCII runes: <<lo, hi, stride, delta>> maps
\* every stride-th rune of lo..hi to itself plus delta
CaseRanges ==
    <<<<192, 214, 1, 32>>, <<216, 222, 1, 32>>, <<256, 302, 2, 1>>,
      <<304, 304, 1, 0 - 199>>, <<306, 310, 2, 1>>, <<313, 327, 2, 1>>,
      <<330, 374, 2, 1>>, <<376, 376, 1, 0 - 121>>, <<377, 381, 2, 1>>,
      <<385, 385, 1, 210>>, <<386, 388, 2, 1>>, <<390, 390, 1, 206>>,
      <<391, 391, 1, 1>>, <<393, 394, 1, 205>>, <<395, 395, 1, 1>>,
      <<398, 398, 1, 79>>, <<399, 399, 1, 202>>, <<400, 400, 1, 203>>,
      <<401, 401, 1, 1>>, <<403, 403, 1, 205>>, <<404, 404, 1, 207>>,
      <<406, 406, 1, 211>>, <<407, 407, 1, 209>>, <<408, 408, 1, 1>>,
      <<412, 412, 1, 211>>, <<413, 413, 1, 213>>, <<415, 415, 1, 214>>,
      <<416, 420, 2, 1>>, <<422, 422, 1, 218>>, <<423, 423, 1, 1>>,
      <<425, 425, 1, 218>>, <<428, 428, 1, 1>>, <<430, 430, 1, 218>>,
      <<431, 431, 1, 1>>, <<433, 434, 1, 217>>, <<435, 437, 2, 1>>,
      <<439, 439, 1, 219>>, <<440, 440, 1, 1>>, <<444, 444, 1, 1>>,
      <<452, 452, 1, 2>>, <<453, 453, 1, 1>>, <<455, 455, 1, 2>>,
      <<456, 456, 1, 1>>, <<458, 458, 1, 2>>, <<459, 475, 2, 1>>,
      <<478, 494, 2, 1>>, <<497, 497, 1, 2>>, <<498, 500, 2, 1>>,
      <<502, 502, 1, 0 - 97>>, <<503, 503, 1, 0 - 56>>, <<504, 542, 2, 1>>,
      <<544, 544, 1, 0 - 130>>, <<546, 562, 2, 1>>, <<570, 570, 1, 10795>>,
      <<571, 571, 1, 1>>, <<573, 573, 1, 0 - 163>>, <<574, 574, 1, 10792>>,
      <<577, 577, 1, 1>>, <<579, 579, 1, 0 - 195>>, <<580, 580, 1, 69>>,
      <<581, 581, 1, 71>>, <<582, 590, 2, 1>>, <<880, 882, 2, 1>>,
      <<886, 886, 1, 1>>, <<895, 895, 1, 116>>, <<902, 902, 1, 38>>,
      <<904, 906, 1, 37>>, <<908, 908, 1, 64>>, <<910, 911, 1, 63>>,
      <<913, 929, 1, 32>>, <<931, 939, 1, 32>>, <<975, 975, 1, 8>>,
      <<984, 1006, 2, 1>>, <<1012, 1012, 1, 0 - 60>>, <<1015, 1015, 1, 1>>,
      <<1017, 1017, 1, 0 - 7>>, <<1018, 1018, 1, 1>>,
      <<1021, 1023, 1, 0 - 130>>, <<1024, 1039, 1, 80>>,
      <<1040, 1071, 1, 32>>, <<1120, 1152, 2, 1>>, <<1162, 1214, 2, 1>>,
      <<1216, 1216, 1, 15>>, <<1217, 1229, 2, 1>>, <<1232, 1326, 2, 1>>,
      <<1329, 1366, 1, 48>>, <<4256, 4293, 1, 7264>>,
      <<4295, 4295, 1, 7264>>, <<4301, 4301, 1, 7264>>,
      <<5024, 5103, 1, 38864>>, <<5104, 5109, 1, 8>>,
      <<7312, 7354, 1, 0 - 3008>>, <<7357, 7359, 1, 0 - 3008>>,
      <<7680, 7828, 2, 1>>, <<7838, 7838, 1, 0 - 7615>>,
      <<7840, 7934, 2, 1>>, <<7944, 7951, 1, 0 - 8>>,
      <<7960, 7965, 1, 0 - 8>>, <<7976, 7983, 1, 0 - 8>>,
      <<7992, 7999, 1, 0 - 8>>, <<8008, 8013, 1, 0 - 8>>,
      <<8025, 8031, 2, 0 - 8>>, <<8040, 8047, 1, 0 - 8>>,
      <<8072, 8079, 1, 0 - 8>>, <<8088, 8095, 1, 0 - 8>>,
      <<8104, 8111, 1, 0 - 8>>, <<8120, 8121, 1, 0 - 8>>,
      <<8122, 8123, 1, 0 - 74>>, <<8124, 8124, 1, 0 - 9>>,
      <<8136, 8139, 1, 0 - 86>>, <<8140, 8140, 1, 0 - 9>>,
      <<8152, 8153, 1, 0 - 8>>, <<8154, 8155, 1, 0 - 100>>,
      <<8168, 8169, 1, 0 - 8>>, <<8170, 8171, 1, 0 - 112>>,
      <<8172, 8172, 1, 0 - 7>>, <<8184, 8185, 1, 0 - 128>>,
      <<8186, 8187, 1, 0 - 126>>, <<8188, 8188, 1, 0 - 9>>,
      <<8486, 8486, 1, 0 - 7517>>, <<8490, 8490, 1, 0 - 8383>>,
      <<8491, 8491, 1, 0 - 8262>>, <<8498, 8498, 1, 28>>,
      <<8544, 8559, 1, 16>>, <<8579, 8579, 1, 1>>, <<9398, 9423, 1, 26>>,
      <<11264, 11311, 1, 48>>, <<11360, 11360, 1, 1>>,
      <<11362, 11362, 1, 0 - 10743>>, <<11363, 11363, 1, 0 - 3814>>,
      <<11364, 11364, 1, 0 - 10727>>, <<11367, 11371, 2, 1>>,
      <<11373, 11373, 1, 0 - 10780>>, <<11374, 11374, 1, 0 - 10749>>,
      <<11375, 11375, 1, 0 - 10783>>, <<11376, 11376, 1, 0 - 10782>>,
      <<11378, 11378, 1, 1>>, <<11381, 11381, 1, 1>>,
      <<11390, 11391, 1, 0 - 10815>>, <<11392, 11490, 2, 1>>,
      <<11499, 11501, 2, 1>>, <<11506, 11506, 1, 1>>,
      <<42560, 42604, 2, 1>>, <<42624, 42650, 2, 1>>,
      <<42786, 42798, 2, 1>>, <<42802, 42862, 2, 1>>,
      <<42873, 42875, 2, 1>>, <<42877, 42877, 1, 0 - 35332>>,
      <<42878, 42886, 2, 1>>, <<42891, 42891, 1, 1>>,
      <<42893, 42893, 1, 0 - 42280>>, <<42896, 42898, 2, 1>>,
      <<42902, 42920, 2, 1>>, <<42922, 42922, 1, 0 - 42308>>,
      <<42923, 42923, 1, 0 - 42319>>, <<42924, 42924, 1, 0 - 42315>>,
      <<42925, 42925, 1, 0 - 42305>>, <<42926, 42926, 1, 0 - 42308>>,
      <<42928, 42928, 1, 0 - 42258>>, <<42929, 42929, 1, 0 - 42282>>,
      <<42930, 42930, 1, 0 - 42261>>, <<42931, 42931, 1, 928>>,
      <<42932, 42946, 2, 1>>, <<42948, 42948, 1, 0 - 48>>,
      <<42949, 42949, 1, 0 - 42307>>, <<42950, 42950, 1, 0 - 35384>>,
      <<42951, 42953, 2, 1>>, <<42960, 42960, 1, 1>>,
      <<42966, 42968, 2, 1>>, <<42997, 42997, 1, 1>>,
      <<65313, 65338, 1, 32>>, <<66560, 66599, 1, 40>>,
      <<66736, 66771, 1, 40>>, <<66928, 66938, 1, 39>>,
      <<66940, 66954, 1, 39>>, <<66956, 66962, 1, 39>>,
      <<66964, 66965, 1, 39>>, <<68736, 68786, 1, 64>>,
      <<71840, 71871, 1, 32>>, <<93760, 93791, 1, 32>>,
      <<125184, 125217, 1, 34>>>>

\* unicode.ToLower
ToLowerRune(r) ==
    IF r < 128 THEN (IF r >= 65 /\ r <= 90 THEN r + 32 ELSE r)
    ELSE IF \E k \in 1..Len(CaseRanges) :
               /\ CaseRanges[k][1] <= r
               /\ r <= CaseRanges[k][2]
               /\ (r - CaseRanges[k][1]) % CaseRanges[k][3] = 0
         THEN LET k == CHOOSE k \in 1..Len(CaseRanges) :
                           /\ CaseRanges[k][1] <= r
                           /\ r <= CaseRanges[k][2]
                           /\ (r - CaseRanges[k][1]) % CaseRanges[k][3] = 0
              IN r + CaseRanges[k][4]
         ELSE r

(***************************************************************************)
(* Go strings package.                                                     *)
(***************************************************************************)
\* strings.Map(unicode.ToLower, s[i-1:]): every rune, an invalid byte being
\* RuneError, is mapped and encoded again
RECURSIVE MapToLower(_, _)
MapToLower(s, i) ==
    IF i > Len(s) THEN <<>>
    ELSE LET d == DecodeRune(s, i)
         IN EncodeRune(ToLowerRune(d.rune)) \o MapToLower(s, i + d.size)

ToLower(s) == MapToLower(s, 1)

HasPrefix(s, prefix) ==
    /\ Len(s) >= Len(prefix)
    /\ SubSeq(s, 1, Len(prefix)) = prefix

HasSuffix(s, suffix) ==
    /\ Len(s) >= Len(suffix)
    /\ SubSeq(s, Len(s) - Len(suffix) + 1, Len(s)) = suffix

Contains(s, substr) ==
    \E i \in 0..(Len(s) - Len(substr)) : SubSeq(s, i + 1, i + Len(substr)) = substr

RECURSIVE Join(_, _)
Join(elems, sep) ==
    IF Len(elems) = 0 THEN <<>>
    ELSE IF Len(elems) = 1 THEN elems[1]
    ELSE elems[1] \o sep \o Join(Tail(elems), sep)

(***************************************************************************)
(* Natural numbers of any size: the sequence of the base-32768 digits,     *)
(* lowest first, without a highest digit of zero.  Carries are read off    *)
(* the digit sums, so that an operation nests no deeper on long numbers.   *)
(***************************************************************************)
BigNorm(a) ==
    IF \A i \in 1..Len(a) : a[i] = 0 THEN <<>>
    ELSE SubSeq(a, 1, CHOOSE i \in 1..Len(a) : a[i] # 0 /\ \A j \in (i + 1)..Len(a) : a[j] = 0)

BigDigitAt(a, i) == IF i >= 1 /\ i <= Len(a) THEN a[i] ELSE 0

\* the order of a and b: -1, 0 or 1
BigCmp(a, b) ==
    IF Len(a) < Len(b) THEN 0 - 1
    ELSE IF Len(a) > Len(b) THEN 1
    ELSE IF a = b THEN 0
    ELSE IF \E i \in 1..Len(a) : a[i] < b[i] /\ \A j \in (i + 1)..Len(a) : a[j] = b[j]
    THEN 0 - 1
    ELSE 1

\* the carry into digit i of the number of digit sums s, each below 65536: a
\* lower sum overflows and every sum between passes the carry on
CarryInto(s, i) ==
    IF \E j \in 1..(i - 1) : s[j] >= 32768 /\ \A k \in (j + 1)..(i - 1) : s[k] = 32767
    THEN 1
    ELSE 0

\* the number of the digit sums s, each at most 65534
BigCarried(s) ==
    BigNorm([i \in 1..(Len(s) + 1) |-> (BigDigitAt(s, i) + CarryInto(s, i)) % 32768])

\* the number of the columns c, each below 2^30: a column gives its low
\* fifteen bits to its own digit and the rest to the next
BigColumns(c) ==
    BigCarried([i \in 1..(Len(c) + 1) |->
                   (BigDigitAt(c, i) % 32768) + (BigDigitAt(c, i - 1) \div 32768)])

\* a * m for 0 <= m < 32768
BigMul(a, m) ==
    IF m = 0 \/ a = <<>> THEN <<>>
    ELSE BigColumns([i \in 1..Len(a) |-> a[i] * m])

BigAdd(a, b) ==
    IF a = <<>> THEN b
    ELSE IF b = <<>> THEN a
    ELSE BigCarried([i \in 1..(IF Len(a) > Len(b) THEN Len(a) ELSE Len(b)) |->
                        BigDigitAt(a, i) + BigDigitAt(b, i)])

\* the borrow from digit i of a - b: a lower digit of a is the smaller and
\* every digit between is the same in both
BorrowFrom(a, b, i) ==
    IF \E j \in 1..(i - 1) :
           a[j] < BigDigitAt(b, j) /\ \A k \in (j + 1)..(i - 1) : a[k] = BigDigitAt(b, k)
    THEN 1
    ELSE 0

\* a - b for a >= b
BigSub(a, b) ==
    IF b = <<>> THEN a
    ELSE BigNorm([i \in 1..Len(a) |-> (a[i] - BigDigitAt(b, i) - BorrowFrom(a, b, i) + 32768) % 32768])

\* a * 32768^n
BigShiftDigits(a, n) == IF a = <<>> THEN <<>> ELSE [i \in 1..n |-> 0] \o a

\* a * 2^n
BigShift(a, n) == BigShiftDigits(BigMul(a, 2^(n % 15)), n \div 15)

\* the number of binary digits of x < 32768
BitLen(x) == CHOOSE n \in 0..15 : x < 2^n /\ (n = 0 \/ x >= 2^(n - 1))

\* the number of binary digits of a
BigBits(a) == IF a = <<>> THEN 0 ELSE 15 * (Len(a) - 1) + BitLen(a[Len(a)])

BigOdd(a) == a # <<>> /\ a[1] % 2 = 1

\* the part of column k of a * b that the digits lo..hi of a give: the low
\* fifteen bits of their products in the column and the rest of their
\* products in the column before
RECURSIVE ColumnSum(_, _, _, _, _)
ColumnSum(a, b, k, lo, hi) ==
    IF lo > hi THEN 0
    ELSE IF lo = hi
    THEN ((a[lo] * BigDigitAt(b, k + 1 - lo)) % 32768)
         + ((a[lo] * BigDigitAt(b, k - lo)) \div 32768)
    ELSE ColumnSum(a, b, k, lo, (lo + hi) \div 2)
         + ColumnSum(a, b, k, ((lo + hi) \div 2) + 1, hi)

\* a * b
BigTimes(a, b) ==
    IF a = <<>> \/ b = <<>> THEN <<>>
    ELSE BigColumns([k \in 1..(Len(a) + Len(b)) |-> ColumnSum(a, b, k, 1, Len(a))])

\* h * h * m for 0 <= m < 32768
BigSquareBy(h, m) == IF h = <<>> THEN <<>> ELSE BigMul(BigTimes(h, h), m)

\* 10^k
RECURSIVE BigTenTo(_)
BigTenTo(k) ==
    IF k < 4 THEN <<(10^k)>>
    ELSE BigSquareBy(BigTenTo(k \div 2), IF k % 2 = 1 THEN 10 ELSE 1)

\* x * 10^k + y
BigJoinDigits(x, y, k) == IF x = <<>> THEN y ELSE BigAdd(BigTimes(x, BigTenTo(k)), y)

\* the number of the decimal digits ds[lo], ..., ds[hi]
RECURSIVE BigOfDigits(_, _, _)
BigOfDigits(ds, lo, hi) ==
    IF lo >= hi THEN (IF lo > hi \/ ds[lo] = 0 THEN <<>> ELSE <<ds[lo]>>)
    ELSE BigJoinDigits(BigOfDigits(ds, lo, (lo + hi) \div 2),
                       BigOfDigits(ds, ((lo + hi) \div 2) + 1, hi),
                       hi - ((lo + hi) \div 2))

\* the largest of q, q - 1 and q - 2 whose product with t is at most r
BigQuoFit(r, t, q) ==
    IF BigCmp(BigMul(t, q), r) <= 0 THEN q
    ELSE IF BigCmp(BigMul(t, q - 1), r) <= 0 THEN q - 1
    ELSE q - 2

\* the digit r \div t for r < t * 32768, the highest digit of t being 16384
\* or more: the two highest digits of r by the highest of t give it or at most
\* two more
BigQuoDigit(r, t) ==
    IF BigCmp(r, t) < 0 THEN 0
    ELSE BigQuoFit(r, t, (LET top == (BigDigitAt(r, Len(t) + 1) * 32768 + r[Len(t)]) \div t[Len(t)]
                          IN IF top > 32767 THEN 32767 ELSE top))

\* the digits n, ..., 1 of the quotient of r by b after the higher digits quo,
\* the rest and the divisor, for r < b * 32768^n; q is digit n
RECURSIVE BigDivFrom(_, _, _, _), BigDivDigit(_, _, _, _, _)
BigDivDigit(quo, r, b, n, q) ==
    IF q = 0 THEN BigDivFrom(<<0>> \o quo, r, b, n - 1)
    ELSE BigDivFrom(<<q>> \o quo, BigSub(r, BigMul(BigShiftDigits(b, n - 1), q)), b, n - 1)

BigDivFrom(quo, r, b, n) ==
    IF n = 0 THEN [quo |-> BigNorm(quo), rem |-> r, den |-> b]
    ELSE BigDivDigit(quo, r, b, n, BigQuoDigit(r, BigShiftDigits(b, n - 1)))

\* a and b scaled by 2^s
BigDivScaled(a, b, s) == BigDivFrom(<<>>, BigShift(a, s), BigShift(b, s), 4)

\* [quo, rem, den]: the quotient of a by b for a < b * 2^60, and the rest rem
\* over den, a and b being scaled for a highest digit of den of 16384 or more
BigDiv(a, b) ==
    IF BigCmp(a, b) < 0 THEN [quo |-> <<>>, rem |-> a, den |-> b]
    ELSE BigDivScaled(a, b, 15 - BitLen(b[Len(b)]))

(***************************************************************************)
(* Decimals and float64 values.                                            *)
(***************************************************************************)
RECURSIVE StripLeadingZeros(_)
StripLeadingZeros(ds) ==
    IF ds # <<>> /\ ds[1] = 0 THEN StripLeadingZeros(Tail(ds)) ELSE ds

RECURSIVE TrailingZeros(_)
TrailingZeros(ds) ==
    IF ds # <<>> /\ ds[Len(ds)] = 0 THEN 1 + TrailingZeros(SubSeq(ds, 1, Len(ds) - 1)) ELSE 0

\* the decimal (-1)^neg * ds * 10^e in its unique form
Decimal(neg, ds, e) ==
    LET a == StripLeadingZeros(ds)
        k == TrailingZeros(a)
    IN IF k = Len(a) THEN [neg |-> neg, digits |-> <<>>, exp |-> 0]
       ELSE [neg |-> neg, digits |-> SubSeq(a, 1, Len(a) - k), exp |-> e + k]

\* the float64 (-1)^neg * mant * 2^e
Float64(neg, mant, e) == [neg |-> neg, mant |-> mant, exp |-> e]

\* 2^52, the least mantissa of a normal float64
MinNormalMant == <<0, 0, 0, 128>>

\* the binary exponent q of the float64 nearest to a / b: a / (b * 2^q) is in
\* 2^52 .. 2^53, or below 2^52 with q = -1074 (denormal)
FloatExp(a, b) ==
    LET \* a / (b * 2^q0) is between 2^52 and 2^54
        q0 == BigBits(a) - BigBits(b) - 53
        big == BigCmp(IF q0 < 0 THEN BigShift(a, 0 - q0) ELSE a,
                      BigShift(b, IF q0 > 0 THEN q0 + 53 ELSE 53)) >= 0
        q1 == IF big THEN q0 + 1 ELSE q0
    IN IF q1 < 0 - 1074 THEN 0 - 1074 ELSE q1

\* the quotient dv.quo, of rest dv.rem over dv.den, rounded to the nearest
\* integer, to the even one when two are as near
RoundedQuotient(dv) ==
    IF dv.rem = <<>> THEN dv.quo
    ELSE LET half == BigCmp(BigMul(dv.rem, 2), dv.den)
         IN IF half > 0 \/ (half = 0 /\ BigOdd(dv.quo)) THEN BigAdd(dv.quo, <<1>>) ELSE dv.quo

\* the float64 (-1)^neg * m * 2^q for m up to 2^53: [ok, val]; not ok is a
\* value out of range
MakeFloat64(neg, m, q) ==
    IF m = <<>> THEN [ok |-> TRUE, val |-> Float64(neg, <<>>, 0)]
    ELSE IF BigBits(m) = 54
    THEN (IF q + 1 > 971 THEN [ok |-> FALSE, val |-> Float64(neg, <<>>, 0)]
          ELSE [ok |-> TRUE, val |-> Float64(neg, MinNormalMant, q + 1)])
    ELSE IF q > 971 THEN [ok |-> FALSE, val |-> Float64(neg, <<>>, 0)]
    ELSE [ok |-> TRUE, val |-> Float64(neg, m, q)]

\* the float64 (-1)^neg * m * 2^q of the integer m nearest to num / den
RoundedFloat64(neg, num, den, q) == MakeFloat64(neg, RoundedQuotient(BigDiv(num, den)), q)

\* the float64 of binary exponent q nearest to (-1)^neg * a / b
RoundRatioAt(neg, a, b, q) ==
    IF q < 0 THEN RoundedFloat64(neg, BigShift(a, 0 - q), b, q)
    ELSE RoundedFloat64(neg, a, BigShift(b, q), q)

\* the float64 nearest to (-1)^neg * a / b
RoundRatio(neg, a, b) == RoundRatioAt(neg, a, b, FloatExp(a, b))

\* strconv.ParseFloat(s, 64) of the decimal d: [ok, val], val the float64
\* nearest to d, the one of even mantissa when two are as near; not ok is a
\* value out of range
ParseFloat(d) ==
    LET e10 == d.exp + Len(d.digits) - 1
    IN IF d.digits = <<>> THEN [ok |-> TRUE, val |-> Float64(d.neg, <<>>, 0)]
       ELSE IF e10 > 310 THEN [ok |-> FALSE, val |-> Float64(d.neg, <<>>, 0)]
       ELSE IF e10 < 0 - 330 THEN [ok |-> TRUE, val |-> Float64(d.neg, <<>>, 0)]
       ELSE IF d.exp >= 0
       THEN RoundRatio(d.neg, BigTimes(BigOfDigits(d.digits, 1, Len(d.digits)),
                                       BigTenTo(d.exp)), <<1>>)
       ELSE RoundRatio(d.neg, BigOfDigits(d.digits, 1, Len(d.digits)), BigTenTo(0 - d.exp))

RECURSIVE NatDigits(_)
NatDigits(n) == IF n = 0 THEN <<>> ELSE NatDigits(n \div 10) \o <<(n % 10)>>

\* the float64 of the integer n
Number(n) == ParseFloat(Decimal(n < 0, NatDigits(IF n < 0 THEN 0 - n ELSE n), 0)).val

(***************************************************************************)
(* The operations of EvaluationResult and the type inference.              *)
(***************************************************************************)
Primitive(e) == e.Type \in {"Null", "Bool", "Number", "String"}

getExprType(raw) ==
    CASE raw.kind = "slice" -> "Array"
      [] raw.kind = "map" -> "Object"
      [] raw.kind = "string" -> "String"
      [] raw.kind = "float64" -> "Number"
      [] raw.kind = "bool" -> "Bool"
      [] OTHER -> "Null"

\* the digit r \div s and the rest, for r < 10 * s
BigDigitRest(r, s, d) == [digit |-> d, rem |-> BigSub(r, BigMul(s, d))]

BigDigit(r, s) ==
    BigDigitRest(r, s, CHOOSE d \in 0..9 :
                           BigCmp(BigMul(s, d), r) <= 0 /\ BigCmp(r, BigMul(s, d + 1)) < 0)

\* c is an order (-1, 0 or 1): at or over the mark, the mark itself counting
\* when the interval is closed
AtOrOver(c, closed) == IF closed THEN c >= 0 ELSE c > 0

AtOrUnder(c, closed) == IF closed THEN c <= 0 ELSE c < 0

\* r / s is the value, (r - mm) / s and (r + mp) / s are halfway to its
\* neighbours, hi is r + mp: scales them until hi / s * 10^k is in [0.1, 1)
RECURSIVE ShortestScale(_, _, _, _, _, _), ShortestScaleBy(_, _, _, _, _, _, _)
ShortestScaleBy(r, s, mp, mm, k, even, hi) ==
    IF AtOrOver(BigCmp(hi, s), even)
    THEN ShortestScale(r, BigMul(s, 10), mp, mm, k + 1, even)
    ELSE IF AtOrUnder(BigCmp(BigMul(hi, 10), s), ~even)
    THEN ShortestScale(BigMul(r, 10), s, BigMul(mp, 10), BigMul(mm, 10), k - 1, even)
    ELSE [r |-> r, s |-> s, mp |-> mp, mm |-> mm, k |-> k]

ShortestScale(r, s, mp, mm, k, even) == ShortestScaleBy(r, s, mp, mm, k, even, BigAdd(r, mp))

\* the digits after acc, up to the first that tells the value from its
\* neighbours; dv is the next digit and the rest, low and high tell that the
\* digit below and the digit above are within the halfway marks
RECURSIVE ShortestDigits(_, _, _, _, _, _), ShortestNext(_, _, _, _, _, _),
          ShortestLast(_, _, _, _, _, _, _, _)
ShortestLast(dv, s, mp, mm, even, acc, low, high) ==
    IF ~low /\ ~high THEN ShortestDigits(dv.rem, s, mp, mm, even, Append(acc, dv.digit))
    ELSE IF low /\ ~high THEN Append(acc, dv.digit)
    ELSE IF high /\ ~low THEN Append(acc, dv.digit + 1)
    \* the nearer of the two, the even one when both are as near
    ELSE IF AtOrUnder(BigCmp(BigMul(dv.rem, 2), s), dv.digit % 2 = 0) THEN Append(acc, dv.digit)
    ELSE Append(acc, dv.digit + 1)

ShortestNext(dv, s, mp, mm, even, acc) ==
    ShortestLast(dv, s, mp, mm, even, acc,
                 AtOrUnder(BigCmp(dv.rem, mm), even),
                 AtOrOver(BigCmp(BigAdd(dv.rem, mp), s), even))

ShortestDigits(r, s, mp, mm, even, acc) ==
    ShortestNext(BigDigit(BigMul(r, 10), s), s, BigMul(mp, 10), BigMul(mm, 10), even, acc)

\* the decimal (-1)^neg * 0.ds * 10^k
DecimalFraction(neg, ds, k) == Decimal(neg, ds, k - Len(ds))

\* the shortest decimal of the scaled value sc
ShortestFrom(neg, sc, even) ==
    DecimalFraction(neg, ShortestDigits(sc.r, sc.s, sc.mp, sc.mm, even, <<>>), sc.k)

\* the value, the halfway marks and the scale estimate kest, all in tenths
ShortestStart(r0, s0, mp0, mm0, up, down, kest, even) ==
    ShortestScale(BigTimes(r0, up), BigTimes(s0, down), BigTimes(mp0, up), BigTimes(mm0, up),
                  kest, even)

\* the shortest decimal that ParseFloat takes back to the float64 f
Shortest(f) ==
    IF f.mant = <<>> THEN Decimal(f.neg, <<>>, 0)
    ELSE LET e == f.exp
             \* the float64 below is half as far as the one above
             edge == f.mant = MinNormalMant /\ e > 0 - 1074
             u == IF edge THEN 2 ELSE 1
             r0 == IF e >= 0 THEN BigShift(f.mant, e + u) ELSE BigMul(f.mant, 2 * u)
             s0 == IF e >= 0 THEN <<(2 * u)>> ELSE BigShift(<<1>>, u - e)
             mm0 == IF e >= 0 THEN BigShift(<<1>>, e) ELSE <<1>>
             mp0 == BigMul(mm0, u)
             kest == ((BigBits(f.mant) + e - 1) * 30103) \div 100000
         IN ShortestFrom(f.neg,
                         ShortestStart(r0, s0, mp0, mm0,
                                       BigTenTo(IF kest < 0 THEN 0 - kest ELSE 0),
                                       BigTenTo(IF kest > 0 THEN kest ELSE 0),
                                       kest, ~BigOdd(f.mant)),
                         ~BigOdd(f.mant))

Zeros(n) == [i \in 1..n |-> 48]

DigitBytes(ds) == [i \in 1..Len(ds) |-> 48 + ds[i]]

\* the decimal d in plain notation: sign, integer digits, point, fraction
\* digits
FormatDecimal(d) ==
    LET sign == IF d.neg THEN <<45>> ELSE <<>>
        n == Len(d.digits)
        point == n + d.exp
    IN IF n = 0 THEN sign \o <<48>>
       ELSE IF d.exp >= 0 THEN sign \o DigitBytes(d.digits) \o Zeros(d.exp)
       ELSE IF point > 0
       THEN sign \o DigitBytes(SubSeq(d.digits, 1, point)) \o <<46>>
                 \o DigitBytes(SubSeq(d.digits, point + 1, n))
       ELSE sign \o <<48, 46>> \o Zeros(0 - point) \o DigitBytes(d.digits)

\* the float64 f in plain notation, with the fewest digits that name f
FormatNumber(f) == FormatDecimal(Shortest(f))

CoerceString(e) ==
    CASE e.Type = "Null" -> <<>>
      [] e.Type = "Bool" ->
             IF e.Value.val THEN Str(<<"t","r","u","e">>) ELSE Str(<<"f","a","l","s","e">>)
      [] e.Type = "Number" -> FormatNumber(e.Value.val)
      [] e.Type = "String" -> e.Value.val
      [] e.Type = "Array" -> Str(<<"A","r","r","a","y">>)
      [] OTHER -> Str(<<"O","b","j","e","c","t">>)

\* "absent" is the nil slice
Absent == [present |-> FALSE, elems |-> <<>>]

CoerceSlice(e) ==
    IF e.Type = "Array" /\ e.Value.kind = "slice"
    THEN [present |-> TRUE, elems |-> e.Value.val]
    ELSE Absent

\* two numbers are equal when both are zero, whatever their signs
Equals(e, raw) ==
    /\ e.Value.kind = raw.kind
    /\ \/ e.Value.val = raw.val
       \/ e.Value.kind = "float64" /\ e.Value.val.mant = <<>> /\ raw.val.mant = <<>>

(***************************************************************************)
(* Outcome of a call: a returned EvaluationResult, a panic with its        *)
(* message, or an error of the calling evaluator.                          *)
(***************************************************************************)
Return(e) == [status |-> "value", ret |-> e]
Panic(m) == [status |-> "panic", msg |-> m]
EvalError(m) == [status |-> "error", msg |-> <<m>>]
NoResult == [status |-> "none"]

BoolResult(b) == Return(EvaluationResult(RawBool(b), "Bool"))

(***************************************************************************)
(* contains                                                                *)
(***************************************************************************)
containsArityMsg ==
    Str(<<"c","o","n","t","a","i","n","s","(",")"," ","r","e","q","u","i","r","e","s"," ","e",
            "x","a","c","t","l","y"," ","2"," ","a","r","g","u","m","e","n","t","s">>)

\* the loop stops at the first element, equal or not
RECURSIVE containsLoop_FirstOnly(_, _, _)
containsLoop_FirstOnly(s, right, i) ==
    IF i > Len(s) THEN BoolResult(FALSE)
    ELSE IF Equals(right, s[i]) THEN BoolResult(TRUE)
    ELSE BoolResult(FALSE)

\* for _, v := range s { if right.Equals(v) { return true } }; return false
RECURSIVE containsLoop(_, _, _)
containsLoop(s, right, i) ==
    IF i > Len(s) THEN BoolResult(FALSE)
    ELSE IF Equals(right, s[i]) THEN BoolResult(TRUE)
    ELSE containsLoop(s, right, i + 1)

containsArray(left, right) ==
    IF ~Primitive(right) THEN BoolResult(FALSE)
    ELSE LET s == CoerceSlice(left) IN
         IF ~s.present THEN BoolResult(FALSE)
         ELSE containsLoop(s.elems, right, 1)

\* an Object is searched by its string coercion
containsSwitch_ObjectAsString(left, right) ==
    CASE left.Type = "Object" ->
             BoolResult(Contains(CoerceString(left), CoerceString(right)))
      [] left.Type = "Array" -> containsArray(left, right)
      [] OTHER -> BoolResult(FALSE)

\* switch left.Type.(type)
containsSwitch(left, right) ==
    CASE left.Type = "Object" -> BoolResult(FALSE)
      [] left.Type = "Array" -> containsArray(left, right)
      [] OTHER -> BoolResult(FALSE)

contains(a) ==
    IF Len(a) # 2 THEN Panic(containsArityMsg)
    ELSE LET left == a[1]
             right == a[2]
         IN IF Primitive(left)
            THEN IF ~Primitive(right) THEN BoolResult(FALSE)
                 ELSE LET ls == CoerceString(left)
                          rs == CoerceString(right)
                      IN BoolResult(Contains(ls, rs))
            ELSE containsSwitch(left, right)

(***************************************************************************)
(* join                                                                    *)
(***************************************************************************)
\* the name of the dynamic type of a raw value in a runtime error
ConcreteTypeName(raw) ==
    CASE raw.kind = "nil" -> Str(<<"n","i","l">>)
      [] raw.kind = "bool" -> Str(<<"b","o","o","l">>)
      [] raw.kind = "float64" -> Str(<<"f","l","o","a","t","6","4">>)
      [] raw.kind = "string" -> Str(<<"s","t","r","i","n","g">>)
      [] raw.kind = "slice" -> Str(<<"[","]","i","n","t","e","r","f","a","c","e"," ","{","}">>)
      [] OTHER -> Str(<<"m","a","p","[","s","t","r","i","n","g","]","i","n","t","e","r","f",
              "a","c","e"," ","{","}">>)

\* the runtime panic of the failed type assertion args[0].Value.([]interface{})
joinAssertMsg(raw) ==
    Str(<<"i","n","t","e","r","f","a","c","e"," ","c","o","n","v","e","r","s","i","o","n",":",
            " ","i","n","t","e","r","f","a","c","e"," ","{","}"," ","i","s"," ">>)
    \o ConcreteTypeName(raw)
    \o Str(<<","," ","n","o","t"," ","[","]","i","n","t","e","r","f","a","c","e"," ","{","}">>)

\* the second argument is ignored
joinSeparator_Default(a) == <<44>>

joinSeparator(a) == IF Len(a) > 1 THEN CoerceString(a[2]) ELSE <<44>>

joinArray(a) ==
    LET separator == joinSeparator(a) IN
    IF a[1].Value.kind # "slice" THEN Panic(joinAssertMsg(a[1].Value))
    ELSE LET ar == a[1].Value.val
             v == [i \in 1..Len(ar) |->
                      CoerceString(EvaluationResult(ar[i], getExprType(ar[i])))]
         IN Return(EvaluationResult(RawStr(Join(v, separator)), "String"))

\* a primitive first argument is coerced to a String
join_Coerce(a) ==
    IF Primitive(a[1])
    THEN Return(EvaluationResult(RawStr(CoerceString(a[1])), "String"))
    ELSE joinArray(a)

join(a) ==
    IF Primitive(a[1]) THEN Return(a[1])
    ELSE joinArray(a)

(***************************************************************************)
(* endswith, startswith                                                    *)
(***************************************************************************)
endswith(a) ==
    LET left == a[1] IN
    IF ~Primitive(left) THEN BoolResult(FALSE)
    ELSE LET right == a[2] IN
         IF ~Primitive(left) THEN BoolResult(FALSE)
         ELSE LET ls == CoerceString(left)
                  rs == CoerceString(right)
              IN BoolResult(HasSuffix(ToLower(ls), ToLower(rs)))

\* only the left operand is lowercased
startswith_LeftLower(a) ==
    LET left == a[1] IN
    IF ~Primitive(left) THEN BoolResult(FALSE)
    ELSE LET right == a[2] IN
         IF ~Primitive(right) THEN BoolResult(FALSE)
         ELSE LET ls == CoerceString(left)
                  rs == CoerceString(right)
              IN BoolResult(HasPrefix(ToLower(ls), rs))

startswith(a) ==
    LET left == a[1] IN
    IF ~Primitive(left) THEN BoolResult(FALSE)
    ELSE LET right == a[2] IN
         IF ~Primitive(right) THEN BoolResult(FALSE)
         ELSE LET ls == CoerceString(left)
                  rs == CoerceString(right)
              IN BoolResult(HasPrefix(ToLower(ls), ToLower(rs)))

(***************************************************************************)
(* encoding/json: Unmarshal of a text into interface{}.  A parse result is *)
(* [ok, val, next]: next is the index after the value.                     *)
(***************************************************************************)
IsSpace(c) == c \in {32, 9, 13, 10}

IsDigit(c) == c >= 48 /\ c <= 57

ParseFail == [ok |-> FALSE, val |-> Nil, next |-> 0]

ParseOk(v, n) == [ok |-> TRUE, val |-> v, next |-> n]

RECURSIVE SkipSpace(_, _)
SkipSpace(s, i) ==
    IF i <= Len(s) /\ IsSpace(s[i]) THEN SkipSpace(s, i + 1) ELSE i

HasLiteral(s, i, lit) ==
    /\ i + Len(lit) - 1 <= Len(s)
    /\ SubSeq(s, i, i + Len(lit) - 1) = lit

\* the index of the first byte from i on that is no digit
RECURSIVE ScanDigits(_, _)
ScanDigits(s, i) ==
    IF i <= Len(s) /\ IsDigit(s[i]) THEN ScanDigits(s, i + 1) ELSE i

\* the digits s[a], ..., s[b - 1]
DigitsOf(s, a, b) == [k \in 1..(b - a) |-> s[a + k - 1] - 48]

\* the value of the exponent digits s[a], ..., s[b - 1]: strconv adds no
\* digit to an exponent that has reached 10000
RECURSIVE ExpValue(_, _, _, _)
ExpValue(s, a, b, acc) ==
    IF a >= b THEN acc
    ELSE ExpValue(s, a + 1, b, IF acc < 10000 THEN acc * 10 + (s[a] - 48) ELSE acc)

\* convertNumber: the float64 f of a number literal that ends before next
NumberResult(f, next) == IF f.ok THEN ParseOk(RawNum(f.val), next) ELSE ParseFail

\* a number: -? (0 | [1-9][0-9]*) (. [0-9]+)? ([eE] [+-]? [0-9]+)?
ParseNumber(s, i) ==
    LET neg == s[i] = 45
        j == IF neg THEN i + 1 ELSE i
    IN IF j > Len(s) \/ ~IsDigit(s[j]) THEN ParseFail
       ELSE LET intEnd == IF s[j] = 48 THEN j + 1 ELSE ScanDigits(s, j)
                hasFrac == intEnd <= Len(s) /\ s[intEnd] = 46
                fracEnd == IF hasFrac THEN ScanDigits(s, intEnd + 1) ELSE intEnd
                fracLen == IF hasFrac THEN fracEnd - intEnd - 1 ELSE 0
                hasExp == fracEnd <= Len(s) /\ s[fracEnd] \in {101, 69}
                signed == hasExp /\ fracEnd + 1 <= Len(s) /\ s[fracEnd + 1] \in {43, 45}
                expStart == IF signed THEN fracEnd + 2 ELSE fracEnd + 1
                expEnd == IF hasExp THEN ScanDigits(s, expStart) ELSE fracEnd
            IN IF hasFrac /\ fracLen = 0 THEN ParseFail
               ELSE IF hasExp /\ expEnd = expStart THEN ParseFail
               ELSE LET ds == DigitsOf(s, j, intEnd)
                              \o (IF hasFrac THEN DigitsOf(s, intEnd + 1, fracEnd) ELSE <<>>)
                        ev == IF hasExp THEN ExpValue(s, expStart, expEnd, 0) ELSE 0
                        ex == IF signed /\ s[fracEnd + 1] = 45 THEN 0 - ev ELSE ev
                    IN NumberResult(ParseFloat(Decimal(neg, ds, ex - fracLen)), expEnd)

\* the value of a hexadecimal digit, -1 for another byte
HexVal(b) ==
    IF b >= 48 /\ b <= 57 THEN b - 48
    ELSE IF b >= 97 /\ b <= 102 THEN b - 87
    ELSE IF b >= 65 /\ b <= 70 THEN b - 55
    ELSE 0 - 1

\* getu4(s[i-1:]): the rune of \uXXXX at index i, -1 when there is none
GetU4(s, i) ==
    IF /\ i + 5 <= Len(s)
       /\ s[i] = 92
       /\ s[i + 1] = 117
       /\ \A k \in 2..5 : HexVal(s[i + k]) >= 0
    THEN HexVal(s[i + 2]) * 4096 + HexVal(s[i + 3]) * 256
         + HexVal(s[i + 4]) * 16 + HexVal(s[i + 5])
    ELSE 0 - 1

IsSurrogate(r) == r >= 55296 /\ r < 57344

\* utf16.DecodeRune
DecodeUTF16(r1, r2) ==
    IF r1 >= 55296 /\ r1 < 56320 /\ r2 >= 56320 /\ r2 < 57344
    THEN (r1 - 55296) * 1024 + (r2 - 56320) + 65536
    ELSE RuneError

\* the bytes after an opening quote, up to the closing quote, unquoted into acc
RECURSIVE ParseString(_, _, _)
ParseString(s, i, acc) ==
    IF i > Len(s) THEN ParseFail
    ELSE IF s[i] = 34 THEN ParseOk(RawStr(acc), i + 1)
    ELSE IF s[i] < 32 THEN ParseFail
    ELSE IF s[i] = 92
    THEN (IF i + 1 > Len(s) THEN ParseFail
         ELSE CASE s[i + 1] \in {34, 92, 47} -> ParseString(s, i + 2, Append(acc, s[i + 1]))
                [] s[i + 1] = 98 -> ParseString(s, i + 2, Append(acc, 8))
                [] s[i + 1] = 102 -> ParseString(s, i + 2, Append(acc, 12))
                [] s[i + 1] = 110 -> ParseString(s, i + 2, Append(acc, 10))
                [] s[i + 1] = 114 -> ParseString(s, i + 2, Append(acc, 13))
                [] s[i + 1] = 116 -> ParseString(s, i + 2, Append(acc, 9))
                [] s[i + 1] = 117 ->
                      LET rr == GetU4(s, i) IN
                      IF rr < 0 THEN ParseFail
                      ELSE IF IsSurrogate(rr)
                      THEN LET dec == DecodeUTF16(rr, GetU4(s, i + 6)) IN
                           IF dec # RuneError
                           THEN ParseString(s, i + 12, acc \o EncodeRune(dec))
                           ELSE ParseString(s, i + 6, acc \o EncodeRune(RuneError))
                      ELSE ParseString(s, i + 6, acc \o EncodeRune(rr))
                [] OTHER -> ParseFail)
    ELSE IF s[i] < 128 THEN ParseString(s, i + 1, Append(acc, s[i]))
    ELSE LET d == DecodeRune(s, i)
         IN ParseString(s, i + d.size, acc \o EncodeRune(d.rune))

MapPut(m, k, v) == [x \in (DOMAIN m) \cup {k} |-> IF x = k THEN v ELSE m[x]]

\* the deepest nesting of arrays and objects the scanner accepts
maxNestingDepth == 10000

\* depth is the number of arrays and objects open around the value
RECURSIVE ParseValue(_, _, _), ParseElements(_, _, _, _), ParseMembers(_, _, _, _)
ParseValue(s, i, depth) ==
    LET j == SkipSpace(s, i) IN
    IF j > Len(s) THEN ParseFail
    ELSE CASE s[j] = 110 ->
                 IF HasLiteral(s, j, Str(<<"n","u","l","l">>)) THEN ParseOk(Nil, j + 4)
                 ELSE ParseFail
           [] s[j] = 116 ->
                 IF HasLiteral(s, j, Str(<<"t","r","u","e">>)) THEN ParseOk(RawBool(TRUE), j + 4)
                 ELSE ParseFail
           [] s[j] = 102 ->
                 IF HasLiteral(s, j, Str(<<"f","a","l","s",
                         "e">>)) THEN ParseOk(RawBool(FALSE), j + 5)
                 ELSE ParseFail
           [] s[j] = 34 -> ParseString(s, j + 1, <<>>)
           [] s[j] = 45 \/ IsDigit(s[j]) -> ParseNumber(s, j)
           [] s[j] = 91 ->
                 LET k == SkipSpace(s, j + 1) IN
                 IF depth + 1 > maxNestingDepth THEN ParseFail
                 ELSE IF k <= Len(s) /\ s[k] = 93 THEN ParseOk(RawSlice(<<>>), k + 1)
                 ELSE ParseElements(s, j + 1, <<>>, depth + 1)
           [] s[j] = 123 ->
                 LET k == SkipSpace(s, j + 1) IN
                 IF depth + 1 > maxNestingDepth THEN ParseFail
                 ELSE IF k <= Len(s) /\ s[k] = 125 THEN ParseOk(RawMap(<<>>), k + 1)
                 ELSE ParseMembers(s, j + 1, <<>>, depth + 1)
           [] OTHER -> ParseFail

\* value (, value)* ]
ParseElements(s, i, acc, depth) ==
    LET r == ParseValue(s, i, depth) IN
    IF ~r.ok THEN ParseFail
    ELSE LET k == SkipSpace(s, r.next) IN
         IF k > Len(s) THEN ParseFail
         ELSE IF s[k] = 93 THEN ParseOk(RawSlice(Append(acc, r.val)), k + 1)
         ELSE IF s[k] = 44 THEN ParseElements(s, k + 1, Append(acc, r.val), depth)
         ELSE ParseFail

\* "key" : value (, "key" : value)* }
ParseMembers(s, i, acc, depth) ==
    LET j == SkipSpace(s, i) IN
    IF j > Len(s) \/ s[j] # 34 THEN ParseFail
    ELSE LET key == ParseString(s, j + 1, <<>>) IN
         IF ~key.ok THEN ParseFail
         ELSE LET c == SkipSpace(s, key.next) IN
              IF c > Len(s) \/ s[c] # 58 THEN ParseFail
              ELSE LET r == ParseValue(s, c + 1, depth) IN
                   IF ~r.ok THEN ParseFail
                   ELSE LET k == SkipSpace(s, r.next)
                            m == MapPut(acc, key.val.val, r.val)
                        IN IF k > Len(s) THEN ParseFail
                           ELSE IF s[k] = 125 THEN ParseOk(RawMap(m), k + 1)
                           ELSE IF s[k] = 44 THEN ParseMembers(s, k + 1, m, depth)
                           ELSE ParseFail

\* json.Unmarshal(data, &v): [ok, val]; not ok is a non-nil error.  r is the
\* first value of the text s, which nothing but space may follow
Decoded(s, r) ==
    IF r.ok /\ SkipSpace(s, r.next) = Len(s) + 1
    THEN [ok |-> TRUE, val |-> r.val]
    ELSE [ok |-> FALSE, val |-> Nil]

Unmarshal(s) == Decoded(s, ParseValue(s, 1, 0))

(***************************************************************************)
(* fromjson                                                                *)
(***************************************************************************)
\* the text of the underlying decode error is not computed: it is one element
\* that is no byte
DecodeErrText == <<0 - 1>>

\* fmt.Errorf of "unable to unmarshal %s fromjson: %w", the %s between
\* backquotes, with inputStr and err
unmarshalMsg(inputStr) ==
    Str(<<"u","n","a","b","l","e"," ","t","o"," ","u","n","m","a","r","s","h","a","l"," ",
            "<backquote>">>)
    \o inputStr
    \o Str(<<"<backquote>"," ","f","r","o","m","j","s","o","n",":"," ">>)
    \o DecodeErrText

\* Go's %T of a raw value
GoTypeName(raw) ==
    IF raw.kind = "nil" THEN Str(<<"<","n","i","l",">">>) ELSE ConcreteTypeName(raw)

\* fmt.Errorf("unknown type %T in fromjson", v)
unknownTypeMsg(v) ==
    Str(<<"u","n","k","n","o","w","n"," ","t","y","p","e"," ">>)
    \o GoTypeName(v)
    \o Str(<<" ","i","n"," ","f","r","o","m","j","s","o","n">>)

\* a string is tagged Number and a number String
fromjsonSwitch_SwapTags(v) ==
    CASE v.kind = "slice" -> Return(EvaluationResult(v, "Array"))
      [] v.kind = "map" -> Return(EvaluationResult(v, "Object"))
      [] v.kind = "string" -> Return(EvaluationResult(v, "Number"))
      [] v.kind = "float64" -> Return(EvaluationResult(v, "String"))
      [] v.kind = "bool" -> Return(EvaluationResult(v, "Bool"))
      [] OTHER -> Panic(unknownTypeMsg(v))

\* switch v.(type)
fromjsonSwitch(v) ==
    CASE v.kind = "slice" -> Return(EvaluationResult(v, "Array"))
      [] v.kind = "map" -> Return(EvaluationResult(v, "Object"))
      [] v.kind = "string" -> Return(EvaluationResult(v, "String"))
      [] v.kind = "float64" -> Return(EvaluationResult(v, "Number"))
      [] v.kind = "bool" -> Return(EvaluationResult(v, "Bool"))
      [] OTHER -> Panic(unknownTypeMsg(v))

\* a text that does not decode gives a Null Value
fromjsonDecoded_NullOnError(inputStr, r) ==
    IF ~r.ok THEN Return(EvaluationResult(Nil, "Null"))
    ELSE fromjsonSwitch(r.val)

\* r is the outcome of json.Unmarshal on inputStr
fromjsonDecoded(inputStr, r) ==
    IF ~r.ok THEN Panic(unmarshalMsg(inputStr))
    ELSE fromjsonSwitch(r.val)

fromjsonText(inputStr) == fromjsonDecoded(inputStr, Unmarshal(inputStr))

fromjson(a) == fromjsonText(CoerceString(a[1]))

(***************************************************************************)
(* The function registry and the arity check of the calling evaluator.     *)
(***************************************************************************)
FuncNames == {"contains", "startswith", "endswith", "join", "fromjson"}

\* join is registered with exactly one argument
functions_JoinExactlyOne ==
    [name \in FuncNames |->
        CASE name = "contains" -> [argsCount |-> 2, call |-> "contains"]
          [] name = "startswith" -> [argsCount |-> 2, call |-> "startswith"]
          [] name = "endswith" -> [argsCount |-> 2, call |-> "endswith"]
          [] name = "join" -> [argsCount |-> 1, call |-> "join"]
          [] OTHER -> [argsCount |-> 1, call |-> "fromjson"]]

functions ==
    [name \in FuncNames |->
        CASE name = "contains" -> [argsCount |-> 2, call |-> "contains"]
          [] name = "startswith" -> [argsCount |-> 2, call |-> "startswith"]
          [] name = "endswith" -> [argsCount |-> 2, call |-> "endswith"]
          [] name = "join" -> [argsCount |-> 0 - 1, call |-> "join"]
          [] OTHER -> [argsCount |-> 1, call |-> "fromjson"]]

\* positive: matched exactly; negative: abs(argsCount) is the minimum
ArityOK(argsCount, n) ==
    IF argsCount > 0 THEN n = argsCount ELSE n >= 0 - argsCount

(***************************************************************************)
(* The explored inputs.                                                    *)
(***************************************************************************)
Alphabet == {Byte("a"), Byte("A"), Byte("b")}

StringsOver(alphabet, n) == UNION {[1..k -> alphabet] : k \in 0..n}

HelloWorld == Str(<<"H","e","l","l","o","W","o","r","l","d">>)

ExtraStrings ==
    { HelloWorld,
      Str(<<"h","e","l","l","o">>),
      Str(<<"W","O","R","L","D">>),
      Str(<<"A","r","r","a","y">>),
      <<195, 137>>,     \* U+00C9, capital E with acute
      <<195, 169>> }    \* U+00E9, small e with acute

StringVals ==
    {EvaluationResult(RawStr(s), "String") : s \in StringsOver(Alphabet, MaxLen) \cup ExtraStrings}

NumberVals == {EvaluationResult(RawNum(Number(n)), "Number") : n \in 0..MaxNum}

BoolVals == {EvaluationResult(RawBool(b), "Bool") : b \in BOOLEAN}

NullVal == EvaluationResult(Nil, "Null")

PrimitiveVals == StringVals \cup NumberVals \cup BoolVals \cup {NullVal}

ElemRaw == {RawStr(Str(<<"a">>)), RawNum(Number(1)), RawBool(TRUE), RawSlice(<<>>)}

ArrayVals ==
    {EvaluationResult(RawSlice(s), "Array") : s \in StringsOver(ElemRaw, MaxArr)}

ObjectVals ==
    { EvaluationResult(RawMap(<<>>), "Object"),
      EvaluationResult(RawMap(MapPut(<<>>, Str(<<"a">>), RawNum(Number(1)))), "Object") }

Values == PrimitiveVals \cup ArrayVals \cup ObjectVals

JsonAlphabet == {Byte("["), Byte("]"), Byte("0"), Byte("1"), Byte(","), Byte("\""), Byte("a")}

ExtraJsonTexts ==
    { Str(<<"n","u","l","l">>),
      Str(<<" ","n","u","l","l"," ">>),
      Str(<<"n","u","l">>),
      Str(<<"t","r","u","e">>),
      Str(<<"f","a","l","s","e">>),
      Str(<<"n","o","t"," ","j","s","o","n">>),
      Str(<<"[","1",",","2",",","3","]">>),
      Str(<<"[","1",",","]">>),
      Str(<<"[","n","u","l","l","]">>),
      Str(<<"{","}">>),
      Str(<<"{","\"","a","\"",":","1","}">>),
      Str(<<"{","\"","a","\"",":","1",",","\"","a","\"",":","t","r","u","e","}">>),
      Str(<<"{","\"","a","\"","}">>),
      Str(<<" ","\"","H","i","\"">>) \o <<10>>,
      Str(<<"[","\"","a","\"",","," ","[","]","]">>),
      Str(<<"1",".","5">>),
      Str(<<"1","e","2">>),
      Str(<<"-","0">>),
      Str(<<"1","E","4","0","0">>),
      Str(<<"2","5","e","-","3","2","5">>),
      Str(<<"1",".">>),
      Str(<<"[","1",".","5",","," ","-","2","e","-","1","]">>),
      Str(<<"[","1",".","0","0","0","0","0","0","0","0","0","0","0","0","0","0","0","0","1","]">>),
      Str(<<"9","0","0","7","1","9","9","2","5","4","7","4","0","9","9","3">>),
      Str(<<"3","e","-","3","2","4">>),
      Str(<<"1","e","2","3">>),
      Str(<<"1",".","7","9","7","6","9","3","1","3","4","8","6","2","3","1","5","7","e","3",
              "0","8">>),
      Str(<<"1",".","7","9","7","6","9","3","1","3","4","8","6","2","3","1","5","9","e","3",
              "0","8">>),
      Str(<<"[","1",","," ","2","E","9","9","9","]">>),
      Str(<<"1","e","-","1","0","0","0","0","0">>),
      Str(<<"[","[","[","]","]","]">>),
      Str(<<"\"","a","\\","n","b","\"">>),
      Str(<<"\"","\\","u","0","0","e","9","\"">>),
      Str(<<"\"","\\","u","d","8","3","d","\\","u","d","e","0","0","\"">>),
      Str(<<"\"","\\","u","d","8","3","d","\"">>),
      Str(<<"\"","\\","x","\"">>),
      <<34, 97, 12, 98, 34>>,     \* a raw form feed in a string
      <<34, 255, 34>> }           \* a byte that is no UTF-8 in a string

JsonVals ==
    {EvaluationResult(RawStr(s), "String") :
        s \in StringsOver(JsonAlphabet, MaxJsonLen) \cup ExtraJsonTexts}

\* the values of the argument lists with more than two arguments
FewVals ==
    { EvaluationResult(RawStr(Str(<<"a">>)), "String"),
      EvaluationResult(RawSlice(<<RawStr(Str(<<"a">>)), RawNum(Number(1))>>), "Array"),
      EvaluationResult(RawMap(<<>>), "Object") }

ArgLists ==
    {<<>>}
    \cup {<<a>> : a \in Values \cup JsonVals}
    \cup {<<a, b>> : a \in Values, b \in Values}
    \cup UNION {[1..k -> FewVals] : k \in 3..MaxArgs}

CalledNames == FuncNames \cup {"tojson"}

(***************************************************************************)
(* One call: the evaluator looks the function up, validates the argument   *)
(* count and invokes the implementation.                                   *)
(***************************************************************************)
Init ==
    /\ fn \in CalledNames
    /\ args \in ArgLists
    /\ pc = "lookup"
    /\ result = NoResult

UnknownFunction ==
    /\ pc = "lookup"
    /\ fn \notin DOMAIN functions
    /\ result' = EvalError("unknown function")
    /\ pc' = "done"
    /\ UNCHANGED <<fn, args>>

WrongArgumentCount ==
    /\ pc = "lookup"
    /\ fn \in DOMAIN functions
    /\ ~ArityOK(functions[fn].argsCount, Len(args))
    /\ result' = EvalError("wrong argument count")
    /\ pc' = "done"
    /\ UNCHANGED <<fn, args>>

Dispatch ==
    /\ pc = "lookup"
    /\ fn \in DOMAIN functions
    /\ ArityOK(functions[fn].argsCount, Len(args))
    /\ pc' = "invoke"
    /\ UNCHANGED <<fn, args, result>>

CallContains ==
    /\ pc = "invoke"
    /\ functions[fn].call = "contains"
    /\ result' = contains(args)
    /\ pc' = "done"
    /\ UNCHANGED <<fn, args>>

CallStartswith ==
    /\ pc = "invoke"
    /\ functions[fn].call = "startswith"
    /\ result' = startswith(args)
    /\ pc' = "done"
    /\ UNCHANGED <<fn, args>>

CallEndswith ==
    /\ pc = "invoke"
    /\ functions[fn].call = "endswith"
    /\ result' = endswith(args)
    /\ pc' = "done"
    /\ UNCHANGED <<fn, args>>

CallJoin ==
    /\ pc = "invoke"
    /\ functions[fn].call = "join"
    /\ result' = join(args)
    /\ pc' = "done"
    /\ UNCHANGED <<fn, args>>

CallFromjson ==
    /\ pc = "invoke"
    /\ functions[fn].call = "fromjson"
    /\ result' = fromjson(args)
    /\ pc' = "done"
    /\ UNCHANGED <<fn, args>>

Next ==
    \/ UnknownFunction
    \/ WrongArgumentCount
    \/ Dispatch
    \/ CallContains
    \/ CallStartswith
    \/ CallEndswith
    \/ CallJoin
    \/ CallFromjson

Spec == Init /\ [][Next]_vars

(* Properties.                                                             *)
(***************************************************************************)
\* the implementation of f was invoked and has finished
Invoked(f) == pc = "done" /\ fn = f /\ result.status \in {"value", "panic"}

\* the call returned the Bool Value b
ReturnedBool(b) ==
    /\ result.status = "value"
    /\ result.ret.Type = "Bool"
    /\ result.ret.Value.kind = "bool"
    /\ result.ret.Value.val = b

\* the call returned the String Value s
ReturnedString(s) ==
    /\ result.status = "value"
    /\ result.ret.Type = "String"
    /\ result.ret.Value.kind = "string"
    /\ result.ret.Value.val = s

SameRaw(x, y) == x.kind = y.kind /\ x.val = y.val

SameValue(x, y) == x.Type = y.Type /\ SameRaw(x.Value, y.Value)

Lowercase(e) == ToLower(CoerceString(e))

\* p is a prefix of s, character by character
IsPrefixOf(p, s) ==
    /\ Len(p) <= Len(s)
    /\ \A i \in 1..Len(p) : s[i] = p[i]

\* p is a suffix of s, character by character
IsSuffixOf(p, s) ==
    /\ Len(p) <= Len(s)
    /\ \A i \in 1..Len(p) : s[Len(s) - Len(p) + i] = p[i]

\* p occurs in s
IsSubstringOf(p, s) ==
    \E k \in 0..(Len(s) - Len(p)) : \A i \in 1..Len(p) : s[k + i] = p[i]

\* C1: for primitive a and b, contains(a, b) is true iff lowercase(CoerceString(a))
\* contains lowercase(CoerceString(b)) as a substring (case-insensitive match).
C1_ContainsCaseInsensitive ==
    (Invoked("contains") /\ Primitive(args[1]) /\ Primitive(args[2]))
        => ReturnedBool(IsSubstringOf(Lowercase(args[2]), Lowercase(args[1])))

\* C2: startswith(a, b) and endswith(a, b) are the Bool false when either operand
\* is not primitive.
C2_NonPrimitiveOperandIsFalse ==
    ((Invoked("startswith") \/ Invoked("endswith"))
        /\ (~Primitive(args[1]) \/ ~Primitive(args[2])))
        => ReturnedBool(FALSE)

\* the call passed the arity validation of the registry
PassedArity == pc = "invoke" \/ result.status \in {"value", "panic"}

\* the call was rejected with "wrong argument count"
RejectedArity == result.status = "error" /\ result.msg = <<"wrong argument count">>

\* C3 as stated: join passes the arity validation with 1 or 2 arguments and is
\* rejected with every other count; contains, startswith, endswith pass with
\* exactly 2 and fromjson with exactly 1.
C3_JoinOneOrTwoArguments ==
    (pc # "lookup" /\ fn \in FuncNames) =>
        LET n == Len(args)
            accepted == CASE fn = "join" -> n \in {1, 2}
                          [] fn = "fromjson" -> n = 1
                          [] OTHER -> n = 2
        IN /\ PassedArity <=> accepted
           /\ RejectedArity <=> ~accepted

\* C3 amended: join passes the arity validation iff it has at least 1 argument
\* (there is no upper bound); contains, startswith, endswith pass with exactly 2
\* and fromjson with exactly 1.
C3_JoinAtLeastOneArgument ==
    (pc # "lookup" /\ fn \in FuncNames) =>
        LET n == Len(args)
            accepted == CASE fn = "join" -> n >= 1
                          [] fn = "fromjson" -> n = 1
                          [] OTHER -> n = 2
        IN /\ PassedArity <=> accepted
           /\ RejectedArity <=> ~accepted

C3_Witness ==
    /\ pc = "done" /\ fn = "join" /\ Len(args) = 3
    /\ args[1].Type = "Array"
    /\ result.status = "value"

\* C4: for an Array A, contains(A, x) is true iff some element of A equals x
\* under Equals when x is primitive, and false when x is not primitive.
C4_ContainsArrayMembership ==
    (Invoked("contains") /\ args[1].Type = "Array") =>
        IF Primitive(args[2])
        THEN ReturnedBool(\E i \in 1..Len(args[1].Value.val) :
                              Equals(args[2], args[1].Value.val[i]))
        ELSE ReturnedBool(FALSE)

C4_Witness ==
    /\ Invoked("contains")
    /\ args[1].Type = "Array"
    /\ Len(args[1].Value.val) = 2
    /\ Primitive(args[2])
    /\ ~Equals(args[2], args[1].Value.val[1])
    /\ Equals(args[2], args[1].Value.val[2])
    /\ ReturnedBool(TRUE)

\* the string coercion of the i-th element of the array value e
ElemString(e, i) ==
    CoerceString(EvaluationResult(e.Value.val[i], getExprType(e.Value.val[i])))

\* the index before the i-th element's text in the joined string
RECURSIVE ElemOffset(_, _, _)
ElemOffset(e, sep, i) ==
    IF i = 1 THEN 0
    ELSE ElemOffset(e, sep, i - 1) + Len(ElemString(e, i - 1)) + Len(sep)

\* r is the elements' strings in order with sep between consecutive elements
IsJoined(r, e, sep) ==
    LET n == Len(e.Value.val) IN
    IF n = 0 THEN r = <<>>
    ELSE /\ Len(r) = ElemOffset(e, sep, n) + Len(ElemString(e, n))
         /\ \A i \in 1..n :
               LET off == ElemOffset(e, sep, i)
                   str == ElemString(e, i)
               IN /\ SubSeq(r, off + 1, off + Len(str)) = str
                  /\ i < n => SubSeq(r, off + Len(str) + 1, off + Len(str) + Len(sep)) = sep

\* C5: for an Array first argument join returns the String of the elements'
\* string coercions, in array order, with the separator between consecutive
\* elements: "," without a second argument, else CoerceString of the second.
C5_JoinArray ==
    (Invoked("join") /\ args[1].Type = "Array") =>
        LET sep == IF Len(args) = 1 THEN Str(<<",">>) ELSE CoerceString(args[2]) IN
        /\ result.status = "value"
        /\ result.ret.Type = "String"
        /\ result.ret.Value.kind = "string"
        /\ IsJoined(result.ret.Value.val, args[1], sep)

C5_Witness ==
    /\ Invoked("join")
    /\ Len(args) = 2
    /\ args[1].Type = "Array"
    /\ Len(args[1].Value.val) = 2
    /\ CoerceString(args[2]) = Str(<<"A", "b">>)
    /\ ReturnedString(ElemString(args[1], 1) \o Str(<<"A", "b">>) \o ElemString(args[1], 2))

\* C6: join returns a primitive first argument unchanged (same payload, same
\* type tag, no string coercion), with or without a separator argument.
C6_JoinPrimitiveIdentity ==
    (Invoked("join") /\ Primitive(args[1])) =>
        /\ result.status = "value"
        /\ SameValue(result.ret, args[1])

C6_Witness ==
    /\ Invoked("join")
    /\ Len(args) = 2
    /\ args[1].Type = "Number"
    /\ result.status = "value"
    /\ result.ret.Type = "Number"
    /\ result.ret.Value.kind = "float64"
    /\ result.ret.Value.val = args[1].Value.val

(***************************************************************************)
(* The JSON grammar of RFC 8259 over the bytes of a text, read off the     *)
(* text without decoding it.  The bytes of a string from 128 on are taken  *)
(* as they are: the grammar does not judge their UTF-8.                    *)
(***************************************************************************)
JsonWhite == {32, 9, 10, 13}

JsonDigit == 48..57

JsonHex == (48..57) \cup (65..70) \cup (97..102)

\* the least index from i on that is past the text or holds no byte of set
RunEnd(s, i, set) ==
    CHOOSE j \in i..(Len(s) + 1) :
        /\ j = Len(s) + 1 \/ s[j] \notin set
        /\ \A k \in i..(j - 1) : s[k] \in set

\* the indexes of the number at i: after the sign (int), after the integer
\* digits (dot), after the fraction (exp), of the first exponent digit (pow)
\* and after the number (next)
JsonNumberAt(s, i) ==
    LET a == IF s[i] = 45 THEN i + 1 ELSE i
        b == RunEnd(s, a, JsonDigit)
        c == IF b <= Len(s) /\ s[b] = 46 THEN RunEnd(s, b + 1, JsonDigit) ELSE b
        hasExp == c <= Len(s) /\ s[c] \in {69, 101}
        d == IF hasExp /\ c + 1 <= Len(s) /\ s[c + 1] \in {43, 45} THEN c + 2 ELSE c + 1
    IN [int |-> a, dot |-> b, exp |-> c, pow |-> d,
        next |-> IF hasExp THEN RunEnd(s, d, JsonDigit) ELSE c]

\* number = [ minus ] int [ frac ] [ exp ], int without a leading zero
IsJsonNumber(s, p) ==
    /\ p.dot > p.int
    /\ s[p.int] = 48 => p.dot = p.int + 1
    /\ p.exp > p.dot => p.exp > p.dot + 1
    /\ p.next > p.exp => p.next > p.pow

\* the number of backslashes right before index j
BackslashesBefore(s, j) ==
    (j - 1) - (CHOOSE k \in 0..(j - 1) :
                  /\ k = 0 \/ s[k] # 92
                  /\ \A m \in (k + 1)..(j - 1) : s[m] = 92)

\* index j holds a quotation mark that no backslash escapes
IsJsonQuote(s, j) == s[j] = 34 /\ BackslashesBefore(s, j) % 2 = 0

\* the byte at k, within a string that closes at j, is no control character
\* and, when it opens an escape, opens one of the grammar
IsJsonChar(s, k, j) ==
    /\ s[k] >= 32
    /\ (s[k] = 92 /\ BackslashesBefore(s, k) % 2 = 0) =>
          \/ s[k + 1] \in {34, 92, 47, 98, 102, 110, 114, 116}
          \/ /\ s[k + 1] = 117
             /\ k + 5 < j
             /\ \A m \in (k + 2)..(k + 5) : s[m] \in JsonHex

\* the index after the string that opens at i, 0 when there is none
JsonStringEnd(s, i) ==
    IF \A j \in (i + 1)..Len(s) : ~IsJsonQuote(s, j) THEN 0
    ELSE LET j == CHOOSE j \in (i + 1)..Len(s) :
                      IsJsonQuote(s, j) /\ \A k \in (i + 1)..(j - 1) : ~IsJsonQuote(s, k)
         IN IF \A k \in (i + 1)..(j - 1) : IsJsonChar(s, k, j) THEN j + 1 ELSE 0

\* the exponent digits lo..hi of the text as a number, read as far as the
\* first digits that reach 10000: the decoder reads no more of an exponent
RECURSIVE JsonDigitsValue(_, _, _)
JsonDigitsValue(s, lo, hi) ==
    IF lo > hi THEN 0
    ELSE IF JsonDigitsValue(s, lo, hi - 1) >= 10000 THEN JsonDigitsValue(s, lo, hi - 1)
    ELSE JsonDigitsValue(s, lo, hi - 1) * 10 + (s[hi] - 48)

\* (2^54 - 1) * 2^970, halfway from the largest float64 to 2^1024: a number
\* of this magnitude or more is out of the float64 range
Float64Overflow == BigShift(<<32767, 32767, 32767, 511>>, 970)

\* the digits ds, of which the first is not 0, times 10^e are below
\* Float64Overflow
DecimalFits(ds, e) ==
    IF Len(ds) + e <= 308 THEN TRUE
    ELSE IF Len(ds) + e > 309 THEN FALSE
    ELSE IF e >= 0
    THEN BigCmp(BigTimes(BigOfDigits(ds, 1, Len(ds)), BigTenTo(e)), Float64Overflow) < 0
    ELSE BigCmp(BigOfDigits(ds, 1, Len(ds)), BigTimes(Float64Overflow, BigTenTo(0 - e))) < 0

\* the digits ds from the first that is not 0 on, times 10^e, are in range
DigitsFit(ds, e) ==
    \/ \A k \in 1..Len(ds) : ds[k] = 0
    \/ DecimalFits(SubSeq(ds, CHOOSE k \in 1..Len(ds) :
                                  ds[k] # 0 /\ \A m \in 1..(k - 1) : ds[m] = 0, Len(ds)),
                   e)

\* the number of indexes p, its exponent read as far as 10000, is within the
\* float64 range
JsonNumberFits(s, p) ==
    DigitsFit([k \in 1..((p.dot - p.int) + (IF p.exp > p.dot THEN p.exp - p.dot - 1 ELSE 0)) |->
                  IF k <= p.dot - p.int THEN s[p.int + k - 1] - 48 ELSE s[p.int + k] - 48],
              (IF p.next > p.exp
               THEN (IF s[p.pow - 1] = 45 THEN 0 - 1 ELSE 1) * JsonDigitsValue(s, p.pow, p.next - 1)
               ELSE 0)
              - (IF p.exp > p.dot THEN p.exp - p.dot - 1 ELSE 0))

\* what the grammar finds at an index: next is the index after it, 0 when
\* there is nothing of the grammar; depth is the deepest nesting of arrays and
\* objects; fits tells that every number, its exponent read as far as 10000,
\* is within the float64 range
JsonNone == [next |-> 0, depth |-> 0, fits |-> TRUE]

JsonFound(n) == [next |-> n, depth |-> 0, fits |-> TRUE]

JsonNumber(s, p) ==
    IF IsJsonNumber(s, p) THEN [next |-> p.next, depth |-> 0, fits |-> JsonNumberFits(s, p)]
    ELSE JsonNone

\* the array or object of the elements or members r
JsonNested(r) ==
    IF r.next = 0 THEN JsonNone ELSE [next |-> r.next, depth |-> r.depth + 1, fits |-> r.fits]

\* the value v and the elements or members w after it
JsonBoth(v, w) ==
    IF w.next = 0 THEN JsonNone
    ELSE [next |-> w.next, depth |-> IF v.depth > w.depth THEN v.depth ELSE w.depth,
          fits |-> v.fits /\ w.fits]

IsJsonLiteral(s, i, word) == i + Len(word) - 1 <= Len(s) /\ SubSeq(s, i, i + Len(word) - 1) = word

RECURSIVE JsonValue(_, _), JsonElements(_, _), JsonMembers(_, _), JsonAfter(_, _, _),
          JsonMember(_, _), JsonNextMember(_, _)
\* value = false / null / true / object / array / number / string
JsonValue(s, i) ==
    IF i > Len(s) THEN JsonNone
    ELSE IF s[i] = 91 THEN JsonNested(JsonElements(s, RunEnd(s, i + 1, JsonWhite)))
    ELSE IF s[i] = 123 THEN JsonNested(JsonMembers(s, RunEnd(s, i + 1, JsonWhite)))
    ELSE IF s[i] = 34 THEN JsonFound(JsonStringEnd(s, i))
    ELSE IF s[i] = 45 \/ s[i] \in JsonDigit THEN JsonNumber(s, JsonNumberAt(s, i))
    ELSE IF IsJsonLiteral(s, i, Str(<<"t","r","u","e">>)) THEN JsonFound(i + 4)
    ELSE IF IsJsonLiteral(s, i, Str(<<"f","a","l","s","e">>)) THEN JsonFound(i + 5)
    ELSE IF IsJsonLiteral(s, i, Str(<<"n","u","l","l">>)) THEN JsonFound(i + 4)
    ELSE JsonNone

\* after the value v of an array or object closed by the byte close: the
\* closing byte at j, or a comma and more
JsonAfter(s, v, close) ==
    IF v.next = 0 \/ RunEnd(s, v.next, JsonWhite) > Len(s) THEN JsonNone
    ELSE IF s[RunEnd(s, v.next, JsonWhite)] = close
    THEN [next |-> RunEnd(s, v.next, JsonWhite) + 1, depth |-> v.depth, fits |-> v.fits]
    ELSE IF s[RunEnd(s, v.next, JsonWhite)] # 44 THEN JsonNone
    ELSE IF close = 93
    THEN JsonBoth(v, JsonAfter(s, JsonValue(s, RunEnd(s, RunEnd(s, v.next, JsonWhite) + 1,
                                                      JsonWhite)), 93))
    ELSE JsonBoth(v, JsonNextMember(s, RunEnd(s, RunEnd(s, v.next, JsonWhite) + 1, JsonWhite)))

\* array = [ value *( , value ) ], read from the first value on; an array
\* without values is closed here
JsonElements(s, i) ==
    IF i <= Len(s) /\ s[i] = 93 THEN JsonFound(i + 1)
    ELSE JsonAfter(s, JsonValue(s, i), 93)

\* member = string : value, the string ending before k, and what follows
JsonMember(s, k) ==
    IF k = 0 \/ RunEnd(s, k, JsonWhite) > Len(s) \/ s[RunEnd(s, k, JsonWhite)] # 58 THEN JsonNone
    ELSE JsonAfter(s, JsonValue(s, RunEnd(s, RunEnd(s, k, JsonWhite) + 1, JsonWhite)), 125)

\* the members from index i on
JsonNextMember(s, i) ==
    IF i > Len(s) \/ s[i] # 34 THEN JsonNone ELSE JsonMember(s, JsonStringEnd(s, i))

\* object = { member *( , member ) }, read from the first member on; an
\* object without members is closed here
JsonMembers(s, i) ==
    IF i <= Len(s) /\ s[i] = 125 THEN JsonFound(i + 1) ELSE JsonNextMember(s, i)

\* JSON-text = ws value ws
JsonText(s, v) ==
    IF v.next # 0 /\ RunEnd(s, v.next, JsonWhite) = Len(s) + 1 THEN v ELSE JsonNone

JsonDocument(s) == JsonText(s, JsonValue(s, RunEnd(s, 1, JsonWhite)))

\* the text is a JSON document
IsJson(s) == JsonDocument(s).next # 0

\* the first byte of the document of the text
JsonFirst(s) == s[RunEnd(s, 1, JsonWhite)]

\* the text is the JSON document null
IsJsonNull(s) == IsJson(s) /\ JsonFirst(s) = 110

\* the type tag of the document of a text, told by its first byte
TagOfJson(s) ==
    CASE JsonFirst(s) = 91 -> "Array"
      [] JsonFirst(s) = 123 -> "Object"
      [] JsonFirst(s) = 34 -> "String"
      [] JsonFirst(s) \in {116, 102} -> "Bool"
      [] JsonFirst(s) = 110 -> "Null"
      [] OTHER -> "Number"

\* encoding/json decodes the documents of numbers within the float64 range
\* and of at most 10000 arrays and objects within one another
IsDecodable(s) == JsonDocument(s).fits /\ JsonDocument(s).depth <= 10000

\* fromjson returned the document of the text as payload, with its type tag
ReturnedDocument(s) ==
    /\ result.status = "value"
    /\ result.ret.Type = TagOfJson(s)
    /\ result.ret.Type = getExprType(result.ret.Value)
    /\ SameRaw(result.ret.Value, Unmarshal(s).val)

\* fromjson failed on the text with the message of the unmarshal error
FailedToUnmarshal(s) ==
    /\ result.status = "panic"
    /\ IsPrefixOf(Str(<<"u","n","a","b","l","e"," ","t","o"," ","u","n","m","a","r","s","h",
            "a","l">>),
                  result.msg)
    /\ IsSubstringOf(s, result.msg)

\* C7 as stated: for an input whose string coercion is a valid JSON document
\* other than null, fromjson returns the decoded document as payload with the
\* type tag that classifies it (Array, Object, String, Number, Bool).
C7_ValidJsonIsDecoded ==
    (Invoked("fromjson") /\ IsJson(CoerceString(args[1])) /\ ~IsJsonNull(CoerceString(args[1])))
        => ReturnedDocument(CoerceString(args[1]))

\* C7 amended: for an input whose string coercion is a valid JSON document
\* other than null, fromjson returns the decoded document as payload with the
\* type tag that classifies it when every number of the document (its
\* exponent read as far as the first digits that reach 10000) is within the
\* float64 range and its arrays and objects are nested at most 10000 deep;
\* on every other valid document it fails with the unmarshal message, which
\* carries the input text.
C7_DecodableJsonIsDecoded ==
    (Invoked("fromjson") /\ IsJson(CoerceString(args[1])) /\ ~IsJsonNull(CoerceString(args[1])))
        => IF IsDecodable(CoerceString(args[1]))
           THEN ReturnedDocument(CoerceString(args[1]))
           ELSE FailedToUnmarshal(CoerceString(args[1]))

\* an array of one number of more digits than a float64 holds: the payload is
\* the float64 nearest to it
C7_Witness ==
    /\ Invoked("fromjson")
    /\ CoerceString(args[1]) = Str(<<"[","1",".","0","0","0","0","0","0","0","0","0","0","0",
            "0","0","0","0","0","1","]">>)
    /\ IsDecodable(CoerceString(args[1]))
    /\ result.status = "value"
    /\ result.ret.Type = "Array"
    /\ result.ret.Value.kind = "slice"
    /\ result.ret.Value.val = <<RawNum(Number(1))>>

\* the string coercion of the input is not valid JSON
NotJson(e) == ~IsJson(CoerceString(e))

\* the string coercion of the input is a top-level JSON null
TopLevelNull(e) == IsJsonNull(CoerceString(e))

\* C8 as stated: for an input that is not valid JSON or is a top-level null,
\* fromjson fails, returns no Value, and the failure carries the input text.
C8_FailureCarriesInputText ==
    (Invoked("fromjson") /\ (NotJson(args[1]) \/ TopLevelNull(args[1]))) =>
        /\ result.status = "panic"
        /\ IsSubstringOf(CoerceString(args[1]), result.msg)

\* C8 amended: for such an input fromjson fails and returns no Value; the
\* failure carries the input text when the text is not valid JSON, and for a
\* top-level null it names the decoded type <nil> and not the input text.
C8_FailsWithoutValue ==
    (Invoked("fromjson") /\ (NotJson(args[1]) \/ TopLevelNull(args[1]))) =>
        /\ result.status = "panic"
        /\ NotJson(args[1]) => IsSubstringOf(CoerceString(args[1]), result.msg)
        /\ TopLevelNull(args[1]) =>
              /\ IsSubstringOf(Str(<<"<","n","i","l",">">>), result.msg)
              /\ ~IsSubstringOf(CoerceString(args[1]), result.msg)

C8_Witness ==
    /\ Invoked("fromjson")
    /\ CoerceString(args[1]) = Str(<<"n","o","t"," ","j","s","o","n">>)
    /\ NotJson(args[1])
    /\ result.status = "panic"
    /\ IsSubstringOf(Str(<<"n","o","t"," ","j","s","o","n">>), result.msg)

\* C9: for primitive a and b, startswith(a, b) is true iff lowercase(a) has
\* lowercase(b) as a prefix, and endswith(a, b) iff it has it as a suffix.
C9_PrefixSuffixCaseInsensitive ==
    /\ (Invoked("startswith") /\ Primitive(args[1]) /\ Primitive(args[2]))
          => ReturnedBool(IsPrefixOf(Lowercase(args[2]), Lowercase(args[1])))
    /\ (Invoked("endswith") /\ Primitive(args[1]) /\ Primitive(args[2]))
          => ReturnedBool(IsSuffixOf(Lowercase(args[2]), Lowercase(args[1])))

C9_Witness ==
    /\ Invoked("startswith")
    /\ CoerceString(args[1]) = HelloWorld
    /\ CoerceString(args[2]) = Str(<<"h","e","l","l","o">>)
    /\ ReturnedBool(TRUE)

\* C10: contains with two arguments never fails, and for a search Value that is
\* neither primitive nor Array it returns the Bool false for every item.
C10_ContainsObjectIsFalse ==
    Invoked("contains") =>
        /\ result.status = "value"
        /\ result.ret.Type = "Bool"
        /\ (~Primitive(args[1]) /\ args[1].Type # "Array") => ReturnedBool(FALSE)

C10_Witness ==
    /\ Invoked("contains")
    /\ args[1].Type = "Object"
    /\ DOMAIN args[1].Value.val = {Str(<<"a">>)}
    /\ args[2].Type = "String"
    /\ args[2].Value.val = Str(<<"b">>)
    /\ ReturnedBool(FALSE)
====
